---- MODULE Spec2Model ----
(***************************************************************************)
(* Model of internal/config/main.go: the Config auto-detection pass        *)
(* (AutoDetect), its scheduler (StartAutoDetect / periodicAutoDetect) and  *)
(* the mutex-guarded store of the OpenShift Routes availability            *)
(* (openshiftRoutesWrapper).  The change handler (newOnChange, Register,   *)
(* Do) and the autodetect enums live outside main.go; they are modelled    *)
(* from the design document.                                               *)
(***************************************************************************)
EXTENDS Integers, Sequences, FiniteSets, TLC

\* ---------------------------------------------------------------- bounds
\* Largest number of callbacks registered before detection starts.
MaxCallbacks == 2
\* Number of concurrent clients of the store in SpecStore.
NumClients == 2
\* Number of store operations the clients start, all together, in SpecStore.
MaxOps == 3

\* ------------------------------------------------------ program constants
\* defaultAutoDetectFrequency = 5 * time.Second, in seconds.
defaultAutoDetectFrequency == 5

\* ------------------------------------------------------------ value sets
\* autodetect.OpenShiftRoutesAvailability (tri-state).
RoutesValues == {"Unknown", "Available", "NotAvailable"}
\* autodetect.AutoscalingVersion.
AutoscalingVersions == {"V1", "V2", "V2Beta2"}
\* autodetect.DefaultAutoscalingVersion.
DefaultAutoscalingVersion == "V2"
\* The functions a caller may register as change callbacks.  Go func values
\* have no identity to compare, so every registration is a callback of its
\* own, named by its registration number.
CallbackFns == 1..MaxCallbacks
\* The goroutines of the program: the caller of StartAutoDetect, the
\* goroutine started by `go c.periodicAutoDetect()`, and one more goroutine
\* that uses the Config's public methods.
Threads == {"main", "loop", "ext"}
\* The concurrent callers of the store's Set and Get.
Clients == 1..NumClients

VARIABLES
  current,            \* openshiftRoutesWrapper.current
  mu,                 \* openshiftRoutesWrapper.mu: TRUE while locked
  autoscalingVersion, \* Config.autoscalingVersion
  callbacks,          \* the change handler's registered callbacks, in order
  pc,                 \* position of each goroutine
  frame,              \* locals of the AutoDetect call of each goroutine
  pass,               \* what the current pass of each goroutine has done so far
  startErr,           \* value StartAutoDetect returned ("none" before it returns)
  serr,               \* the local err of StartAutoDetect
  firstRet,           \* value the AutoDetect call made by StartAutoDetect returned
  startPasses,        \* number of AutoDetect calls StartAutoDetect has made
  logged,             \* last "auto-detection failed" error the loop logged
  steady,             \* the environment: whether the probes have settled, and on
                      \* which answers
  acc,                \* value read by the accessor the "ext" goroutine is in
  failedAt,           \* routing value whose notification failed last ("none": the
                      \* last notification, if any, succeeded)
  cpc,                \* position of each store client
  cop,                \* the store operation each client is running
  chist,              \* the values of the Sets, in the order they took the lock
  cmax,               \* largest place in chist of a Set that has returned
  cstarted            \* number of store operations started so far

vars == <<current, mu, autoscalingVersion, callbacks, pc, frame, pass,
          startErr, firstRet, serr, startPasses, logged, failedAt,
          steady, acc, cpc, cop, chist, cmax, cstarted>>

progVars == <<autoscalingVersion, callbacks, pc, frame, pass, startErr,
              firstRet, serr, startPasses, logged, failedAt, steady,
              acc>>
clientVars == <<cpc, cop, chist, cmax, cstarted>>

\* ------------------------------------------------------- the store (mutex)
\* p.mu.Lock(): blocks while the mutex is held.
MuLock == mu = FALSE /\ mu' = TRUE

\* p.mu.Unlock()
MuUnlock == mu' = FALSE

\* Mutant of SetWrite: Set takes the lock but loses the store.
SetWriteDropped(v) == current' = current

\* p.current = ora, in Set
SetWrite(v) == current' = v

\* ora := p.current, in Get
GetRead == current

\* Mutant of NewWrapperCurrent: the field is left at the tri-state's unknown
\* value.
NewWrapperCurrentUnknown == "Unknown"

\* newOpenShiftRoutesWrapper(): current starts NotAvailable, mutex unlocked.
NewWrapperCurrent == "NotAvailable"

\* ------------------------------------------------- the capability probes
\* The environment while the probes may still fail or change their answers.
Unsettled == [on |-> FALSE, r |-> "none", v |-> "none"]

\* What c.autoDetect.OpenShiftRoutesAvailability() may answer when it succeeds.
RoutesAnswers == IF steady.on THEN {steady.r} ELSE RoutesValues

\* What c.autoDetect.HPAVersion() may answer when it succeeds.
HPAAnswers == IF steady.on THEN {steady.v} ELSE AutoscalingVersions

\* Whether a probe may fail.
ProbeMayFail == ~steady.on

\* ------------------------------------------------------ AutoDetect locals
\* Locals of one AutoDetect call: ora, err, hpaVersion of the code; got is the
\* value c.openshiftRoutes.Get() returned; i and doErr belong to Do's loop;
\* cbGot is what the callback being called has read with c.OpenShiftRoutes().
EmptyFrame == [ora |-> "none", got |-> "none", err |-> "nil",
               hpaVersion |-> "none", i |-> 0, doErr |-> "nil",
               cbGot |-> "none"]

\* What one pass has done: the stored values when it began, what the probes
\* answered ("none": not queried, "fail": failed), the callbacks called in
\* call order, the positions of those that failed, the number of Do calls,
\* the value the pass returned ("none" while running), and whether its Set
\* stored a value other than the one that was stored.
EmptyPass == [preRoutes |-> "none", preVersion |-> "none",
              routesProbe |-> "none", hpaProbe |-> "none",
              invoked |-> <<>>, failed |-> {}, nDo |-> 0, ret |-> "none",
              changed |-> FALSE]

\* A client between two store operations.  While one runs: op is "Set" or
\* "Get", arg the value passed to Set, ret the value Get returned, floor the
\* value of cmax when the operation began, at the place in chist of the Set
\* (for a Set) or of the Set whose value was read (for a Get; 0: the initial
\* value).
NoOp == [op |-> "none", arg |-> "none", ret |-> "none", floor |-> 0, at |-> 0]

\* The state New() builds when no option overrides a default.
Init ==
  /\ current = NewWrapperCurrent
  /\ mu = FALSE
  /\ autoscalingVersion = DefaultAutoscalingVersion
  /\ callbacks = <<>>
  /\ pc = [main |-> "init", loop |-> "unborn", ext |-> "idle"]
  /\ frame = [t \in Threads |-> EmptyFrame]
  /\ pass = [t \in Threads |-> EmptyPass]
  /\ startErr = "none"
  /\ firstRet = "none"
  /\ serr = "none"
  /\ startPasses = 0
  /\ logged = "none"
  /\ failedAt = "none"
  /\ steady = Unsettled
  /\ acc = "none"
  /\ cpc = [c \in Clients |-> "idle"]
  /\ cop = [c \in Clients |-> NoOp]
  /\ chist = <<>>
  /\ cmax = 0
  /\ cstarted = 0

\* --------------------------------------------------------- registration
\* Config.RegisterOpenShiftRoutesChangeCallback -> changeHandler.Register:
\* appends f.  Callbacks are registered before detection starts.
Register(f) ==
  /\ pc["main"] = "init"
  /\ Len(callbacks) < MaxCallbacks
  /\ f = Len(callbacks) + 1
  /\ callbacks' = Append(callbacks, f)
  /\ UNCHANGED <<current, mu, autoscalingVersion, pc, frame, pass, startErr,
                 firstRet, serr, startPasses, logged, failedAt, steady, acc, clientVars>>

\* ------------------------------------------------------------ AutoDetect
\* A call of c.AutoDetect() by goroutine t begins: fresh locals, and the
\* record of the pass notes the stored values at that moment.
AD_Enter(t) ==
  /\ frame' = [frame EXCEPT ![t] = EmptyFrame]
  /\ pass' = [pass EXCEPT ![t] = [EmptyPass EXCEPT !.preRoutes = current,
                                                   !.preVersion = autoscalingVersion]]

\* `return e` out of AutoDetect.
AD_Return(t, e) ==
  /\ pc' = [pc EXCEPT ![t] = "ad_ret"]
  /\ firstRet' = IF t = "main" THEN e ELSE firstRet

\* Mutant of RoutesProbeFailed: the error is not checked and the pass goes on.
RoutesProbeFailedGoesOn(t) ==
  /\ frame' = [frame EXCEPT ![t].err = "ErrRoutes", ![t].ora = "Unknown"]
  /\ pass' = [pass EXCEPT ![t].routesProbe = "fail"]
  /\ pc' = [pc EXCEPT ![t] = "ad_get_lock"]
  /\ UNCHANGED firstRet

\* The routing probe failed: `return err` at once.
RoutesProbeFailed(t) ==
  /\ frame' = [frame EXCEPT ![t].err = "ErrRoutes"]
  /\ pass' = [pass EXCEPT ![t].routesProbe = "fail", ![t].ret = "ErrRoutes"]
  /\ AD_Return(t, "ErrRoutes")

\* ora, err := c.autoDetect.OpenShiftRoutesAvailability(); if err != nil { return err }
AD_ProbeRoutes(t) ==
  /\ pc[t] = "ad_probe_routes"
  /\ \/ ProbeMayFail /\ RoutesProbeFailed(t)
     \/ \E r \in RoutesAnswers :
          /\ frame' = [frame EXCEPT ![t].ora = r, ![t].err = "nil"]
          /\ pass' = [pass EXCEPT ![t].routesProbe = r]
          /\ pc' = [pc EXCEPT ![t] = "ad_get_lock"]
          /\ UNCHANGED firstRet
  /\ UNCHANGED <<current, mu, autoscalingVersion, callbacks, startErr, serr,
                 startPasses, logged, failedAt, steady, acc, clientVars>>

\* c.openshiftRoutes.Get(): p.mu.Lock()
AD_GetLock(t) ==
  /\ pc[t] = "ad_get_lock"
  /\ MuLock
  /\ pc' = [pc EXCEPT ![t] = "ad_get_read"]
  /\ UNCHANGED <<current, autoscalingVersion, callbacks, frame, pass, startErr,
                 firstRet, serr, startPasses, logged, failedAt, steady, acc, clientVars>>

\* c.openshiftRoutes.Get(): ora := p.current
AD_GetRead(t) ==
  /\ pc[t] = "ad_get_read"
  /\ frame' = [frame EXCEPT ![t].got = GetRead]
  /\ pc' = [pc EXCEPT ![t] = "ad_get_unlock"]
  /\ UNCHANGED <<current, mu, autoscalingVersion, callbacks, pass, startErr,
                 firstRet, serr, startPasses, logged, failedAt, steady, acc, clientVars>>

\* c.openshiftRoutes.Get(): p.mu.Unlock(); return ora
AD_GetUnlock(t) ==
  /\ pc[t] = "ad_get_unlock"
  /\ MuUnlock
  /\ pc' = [pc EXCEPT ![t] = "ad_compare"]
  /\ UNCHANGED <<current, autoscalingVersion, callbacks, frame, pass, startErr,
                 firstRet, serr, startPasses, logged, failedAt, steady, acc, clientVars>>

\* Mutant of RoutesChanged: the comparison is dropped, every pass notifies.
RoutesChangedAlways(t) == TRUE

\* Mutant of RoutesChanged: only a change to Available counts as a change.
RoutesChangedToAvailable(t) ==
  frame[t].got # frame[t].ora /\ frame[t].ora = "Available"

\* Mutant of RoutesChanged: a notification that failed is tried again by the
\* next pass.
RoutesChangedOrRetry(t) ==
  frame[t].got # frame[t].ora \/ failedAt # "none"

\* The condition of `if c.openshiftRoutes.Get() != ora`.
RoutesChanged(t) == frame[t].got # frame[t].ora

\* Mutant of AD_Compare: on a change the callbacks are notified before the
\* new value is stored.
AD_CompareNotifiesFirst(t) ==
  /\ pc[t] = "ad_compare"
  /\ IF RoutesChanged(t)
       THEN /\ frame' = [frame EXCEPT ![t].i = 1, ![t].doErr = "nil"]
            /\ pass' = [pass EXCEPT ![t].nDo = @ + 1]
            /\ pc' = [pc EXCEPT ![t] = "ad_do"]
       ELSE /\ pc' = [pc EXCEPT ![t] = "ad_probe_hpa"]
            /\ UNCHANGED <<frame, pass>>
  /\ UNCHANGED <<current, mu, autoscalingVersion, callbacks, startErr,
                 firstRet, serr, startPasses, logged, failedAt, steady, acc,
                 clientVars>>

\* if c.openshiftRoutes.Get() != ora { ... }
AD_Compare(t) ==
  /\ pc[t] = "ad_compare"
  /\ pc' = [pc EXCEPT ![t] = IF RoutesChanged(t) THEN "ad_set_lock"
                                                ELSE "ad_probe_hpa"]
  /\ UNCHANGED <<current, mu, autoscalingVersion, callbacks, frame, pass,
                 startErr, firstRet, serr, startPasses, logged, failedAt, steady, acc, clientVars>>

\* c.openshiftRoutes.Set(ora): p.mu.Lock()
AD_SetLock(t) ==
  /\ pc[t] = "ad_set_lock"
  /\ MuLock
  /\ pc' = [pc EXCEPT ![t] = "ad_set_write"]
  /\ UNCHANGED <<current, autoscalingVersion, callbacks, frame, pass, startErr,
                 firstRet, serr, startPasses, logged, failedAt, steady, acc, clientVars>>

\* c.openshiftRoutes.Set(ora): p.current = ora
AD_SetWrite(t) ==
  /\ pc[t] = "ad_set_write"
  /\ SetWrite(frame[t].ora)
  /\ pass' = [pass EXCEPT ![t].changed = (current' # current)]
  /\ pc' = [pc EXCEPT ![t] = "ad_set_unlock"]
  /\ UNCHANGED <<mu, autoscalingVersion, callbacks, frame, startErr,
                 firstRet, serr, startPasses, logged, failedAt, steady, acc, clientVars>>

\* Mutant of AD_SetUnlock: the mutex is still held when Do is entered.
AD_SetUnlockKeepsLock(t) ==
  /\ pc[t] = "ad_set_unlock"
  /\ frame' = [frame EXCEPT ![t].i = 1, ![t].doErr = "nil"]
  /\ pass' = [pass EXCEPT ![t].nDo = @ + 1]
  /\ pc' = [pc EXCEPT ![t] = "ad_do"]
  /\ UNCHANGED <<current, mu, autoscalingVersion, callbacks, startErr,
                 firstRet, serr, startPasses, logged, failedAt, steady, acc,
                 clientVars>>

\* c.openshiftRoutes.Set(ora): p.mu.Unlock(); then c.onOpenShiftRoutesChange.Do()
\* is entered.
AD_SetUnlock(t) ==
  /\ pc[t] = "ad_set_unlock"
  /\ MuUnlock
  /\ frame' = [frame EXCEPT ![t].i = 1, ![t].doErr = "nil"]
  /\ pass' = [pass EXCEPT ![t].nDo = @ + 1]
  /\ pc' = [pc EXCEPT ![t] = "ad_do"]
  /\ UNCHANGED <<current, autoscalingVersion, callbacks, startErr, firstRet,
                 serr, startPasses, logged, failedAt, steady, acc, clientVars>>

\* Mutant of DoStep: the loop of Do stops at the first callback that fails.
DoStepStopsOnError(t, ok) ==
  /\ frame' = [frame EXCEPT ![t].i = IF ok THEN @ + 1 ELSE Len(callbacks) + 1,
                            ![t].doErr = IF ok \/ @ # "nil" THEN @ ELSE "ErrCallback",
                            ![t].cbGot = "none"]
  /\ pass' = [pass EXCEPT ![t].invoked = Append(@, callbacks[frame[t].i]),
                          ![t].failed = IF ok THEN @ ELSE @ \cup {frame[t].i}]

\* changeHandler.Do(), one iteration of its loop: callback number i, which
\* has been called, answers ok or fails.  A failure is remembered (the first one is the
\* error Do reports) and the loop goes on to the next callback.
DoStep(t, ok) ==
  /\ frame' = [frame EXCEPT ![t].i = @ + 1,
                            ![t].doErr = IF ok \/ @ # "nil" THEN @ ELSE "ErrCallback",
                            ![t].cbGot = "none"]
  /\ pass' = [pass EXCEPT ![t].invoked = Append(@, callbacks[frame[t].i]),
                          ![t].failed = IF ok THEN @ ELSE @ \cup {frame[t].i}]

\* changeHandler.Do(): `for each registered callback, in registration order`.
AD_DoCall(t) ==
  /\ pc[t] = "ad_do"
  /\ frame[t].i <= Len(callbacks)
  /\ \E ok \in BOOLEAN : DoStep(t, ok)
  /\ UNCHANGED <<current, mu, autoscalingVersion, callbacks, pc, startErr,
                 firstRet, serr, startPasses, logged, failedAt, steady, acc, clientVars>>

\* Mutant of AfterDo: a failed notification is returned as the pass's error.
AfterDoReturnsErr(t) ==
  /\ frame' = [frame EXCEPT ![t].err = frame[t].doErr]
  /\ IF frame[t].doErr # "nil"
       THEN /\ pass' = [pass EXCEPT ![t].ret = frame[t].doErr]
            /\ AD_Return(t, frame[t].doErr)
       ELSE /\ pc' = [pc EXCEPT ![t] = "ad_probe_hpa"]
            /\ UNCHANGED <<pass, firstRet>>

\* if err = c.onOpenShiftRoutesChange.Do(); err != nil { c.logger.Error(...) }
\* The error is logged and the pass goes on to the autoscaling probe.
AfterDo(t) ==
  /\ frame' = [frame EXCEPT ![t].err = frame[t].doErr]
  /\ pc' = [pc EXCEPT ![t] = "ad_probe_hpa"]
  /\ UNCHANGED <<pass, firstRet>>

\* changeHandler.Do() returns, after the last callback.
AD_DoReturn(t) ==
  /\ pc[t] = "ad_do"
  /\ frame[t].i > Len(callbacks)
  /\ AfterDo(t)
  /\ failedAt' = IF frame[t].doErr # "nil" THEN frame[t].ora ELSE "none"
  /\ UNCHANGED <<current, mu, autoscalingVersion, callbacks, startErr, serr,
                 startPasses, logged, steady, acc, clientVars>>

\* Mutant of HPAProbeFailed: hpaVersion is stored before err is checked, so a
\* failed probe overwrites the field with the default version.
HPAProbeFailedStoresDefault(t) ==
  /\ frame' = [frame EXCEPT ![t].err = "ErrHPA"]
  /\ pass' = [pass EXCEPT ![t].hpaProbe = "fail", ![t].ret = "ErrHPA"]
  /\ AD_Return(t, "ErrHPA")
  /\ autoscalingVersion' = DefaultAutoscalingVersion

\* Mutant of HPAProbeFailed: the error of the autoscaling probe is swallowed.
HPAProbeFailedReturnsNil(t) ==
  /\ frame' = [frame EXCEPT ![t].err = "ErrHPA"]
  /\ pass' = [pass EXCEPT ![t].hpaProbe = "fail", ![t].ret = "nil"]
  /\ AD_Return(t, "nil")
  /\ UNCHANGED autoscalingVersion

\* hpaVersion, err := c.autoDetect.HPAVersion(); if err != nil { return err }
HPAProbeFailed(t) ==
  /\ frame' = [frame EXCEPT ![t].err = "ErrHPA"]
  /\ pass' = [pass EXCEPT ![t].hpaProbe = "fail", ![t].ret = "ErrHPA"]
  /\ AD_Return(t, "ErrHPA")
  /\ UNCHANGED autoscalingVersion

\* Mutant of HPAProbeOk: the probed version is not stored.
HPAProbeOkNotStored(t, v) ==
  /\ frame' = [frame EXCEPT ![t].hpaVersion = v, ![t].err = "nil"]
  /\ pass' = [pass EXCEPT ![t].hpaProbe = v, ![t].ret = "nil"]
  /\ UNCHANGED autoscalingVersion
  /\ AD_Return(t, "nil")

\* Mutant of HPAProbeOk: a changed autoscaling version is notified like a
\* changed routing value.
HPAProbeOkNotifiesOnChange(t, v) ==
  /\ frame' = [frame EXCEPT ![t].hpaVersion = v, ![t].err = "nil"]
  /\ pass' = [pass EXCEPT ![t].hpaProbe = v, ![t].ret = "nil",
                          ![t].nDo = IF v # autoscalingVersion THEN @ + 1 ELSE @]
  /\ autoscalingVersion' = v
  /\ AD_Return(t, "nil")

\* c.autoscalingVersion = hpaVersion; return nil
HPAProbeOk(t, v) ==
  /\ frame' = [frame EXCEPT ![t].hpaVersion = v, ![t].err = "nil"]
  /\ pass' = [pass EXCEPT ![t].hpaProbe = v, ![t].ret = "nil"]
  /\ autoscalingVersion' = v
  /\ AD_Return(t, "nil")

\* Lines 122-129 of AutoDetect.
AD_ProbeHPA(t) ==
  /\ pc[t] = "ad_probe_hpa"
  /\ \/ ProbeMayFail /\ HPAProbeFailed(t)
     \/ \E v \in HPAAnswers : HPAProbeOk(t, v)
  /\ UNCHANGED <<current, mu, callbacks, startErr, serr, startPasses, logged,
                 failedAt, steady, acc, clientVars>>

\* ------------------------------------------------------- StartAutoDetect
\* Mutant of StartCall: the goroutine is started before the first pass.
StartCallSpawnsFirst ==
  /\ pc["main"] = "init"
  /\ AD_Enter("main")
  /\ startPasses' = startPasses + 1
  /\ pc' = [pc EXCEPT !["main"] = "ad_probe_routes", !["loop"] = "new_ticker"]
  /\ UNCHANGED <<current, mu, autoscalingVersion, callbacks, startErr,
                 firstRet, serr, logged, failedAt, steady, acc, clientVars>>

\* StartAutoDetect is called: err := c.AutoDetect() begins.
StartCall ==
  /\ pc["main"] = "init"
  /\ AD_Enter("main")
  /\ startPasses' = startPasses + 1
  /\ pc' = [pc EXCEPT !["main"] = "ad_probe_routes"]
  /\ UNCHANGED <<current, mu, autoscalingVersion, callbacks, startErr,
                 firstRet, serr, logged, failedAt, steady, acc, clientVars>>

\* Mutant of StartSpawn: the periodic loop is launched only when the first
\* pass succeeded.
StartSpawnOnSuccess ==
  /\ pc["main"] = "ad_ret"
  /\ serr' = pass["main"].ret
  /\ pc' = [pc EXCEPT !["main"] = "start_ret",
                      !["loop"] = IF pass["main"].ret = "nil" THEN "new_ticker"
                                                              ELSE "unborn"]
  /\ frame' = [frame EXCEPT !["main"] = EmptyFrame]
  /\ pass' = [pass EXCEPT !["main"] = EmptyPass]
  /\ UNCHANGED <<current, mu, autoscalingVersion, callbacks, startErr,
                 firstRet, startPasses, logged, failedAt, steady, acc, clientVars>>

\* err := c.AutoDetect() has returned; go c.periodicAutoDetect(), whatever err is.
StartSpawn ==
  /\ pc["main"] = "ad_ret"
  /\ serr' = pass["main"].ret
  /\ pc' = [pc EXCEPT !["main"] = "start_ret", !["loop"] = "new_ticker"]
  /\ frame' = [frame EXCEPT !["main"] = EmptyFrame]
  /\ pass' = [pass EXCEPT !["main"] = EmptyPass]
  /\ UNCHANGED <<current, mu, autoscalingVersion, callbacks, startErr,
                 firstRet, startPasses, logged, failedAt, steady, acc, clientVars>>

\* return err
StartReturn ==
  /\ pc["main"] = "start_ret"
  /\ startErr' = serr
  /\ pc' = [pc EXCEPT !["main"] = "done"]
  /\ UNCHANGED <<current, mu, autoscalingVersion, callbacks, frame, pass,
                 firstRet, serr, startPasses, logged, failedAt, steady, acc, clientVars>>

\* ---------------------------------------------------- periodicAutoDetect
\* ticker := time.NewTicker(c.autoDetectFrequency): New() sets the frequency
\* to the default; NewTicker panics on a duration that is not positive.
NewTicker ==
  /\ pc["loop"] = "new_ticker"
  /\ pc' = [pc EXCEPT !["loop"] = IF defaultAutoDetectFrequency > 0
                                    THEN "wait" ELSE "panicked"]
  /\ UNCHANGED <<current, mu, autoscalingVersion, callbacks, frame, pass,
                 startErr, firstRet, serr, startPasses, logged, failedAt, steady, acc, clientVars>>

\* for range ticker.C: a tick arrives and c.AutoDetect() begins.
Tick ==
  /\ pc["loop"] = "wait"
  /\ AD_Enter("loop")
  /\ pc' = [pc EXCEPT !["loop"] = "ad_probe_routes"]
  /\ UNCHANGED <<current, mu, autoscalingVersion, callbacks, startErr,
                 firstRet, serr, startPasses, logged, failedAt, steady, acc, clientVars>>

\* Mutant of LoopAfterPass: the loop returns when a pass fails.
LoopAfterPassExitsOnError ==
  /\ logged' = IF pass["loop"].ret # "nil" THEN pass["loop"].ret ELSE logged
  /\ pc' = [pc EXCEPT !["loop"] = IF pass["loop"].ret # "nil" THEN "exited"
                                                              ELSE "wait"]

\* if err := c.AutoDetect(); err != nil { c.logger.Info("auto-detection failed") }
\* and the loop waits for the next tick.
LoopAfterPass ==
  /\ logged' = IF pass["loop"].ret # "nil" THEN pass["loop"].ret ELSE logged
  /\ pc' = [pc EXCEPT !["loop"] = "wait"]

\* The body of the `for range ticker.C` loop ends.
LoopLog ==
  /\ pc["loop"] = "ad_ret"
  /\ LoopAfterPass
  /\ frame' = [frame EXCEPT !["loop"] = EmptyFrame]
  /\ pass' = [pass EXCEPT !["loop"] = EmptyPass]
  /\ UNCHANGED <<current, mu, autoscalingVersion, callbacks, startErr,
                 firstRet, serr, startPasses, failedAt, steady, acc, clientVars>>

\* One step of AutoDetect run by goroutine t.
AutoDetect(t) ==
  \/ AD_ProbeRoutes(t)
  \/ AD_GetLock(t)
  \/ AD_GetRead(t)
  \/ AD_GetUnlock(t)
  \/ AD_Compare(t)
  \/ AD_SetLock(t)
  \/ AD_SetWrite(t)
  \/ AD_SetUnlock(t)
  \/ AD_DoCall(t)
  \/ AD_DoReturn(t)
  \/ AD_ProbeHPA(t)

Next ==
  \/ \E f \in CallbackFns : Register(f)
  \/ StartCall
  \/ StartSpawn
  \/ StartReturn
  \/ NewTicker
  \/ Tick
  \/ LoopLog
  \/ \E t \in Threads : AutoDetect(t)

Spec == Init /\ [][Next]_vars

\* ------------------------------------- callbacks that read the Config
\* The callback Do is calling calls c.OpenShiftRoutes(), that is
\* c.openshiftRoutes.Get(): p.mu.Lock() is reached.
AD_CbGetCall(t) ==
  /\ pc[t] = "ad_do"
  /\ frame[t].i <= Len(callbacks)
  /\ frame[t].cbGot = "none"
  /\ pc' = [pc EXCEPT ![t] = "cb_get_lock"]
  /\ UNCHANGED <<current, mu, autoscalingVersion, callbacks, frame, pass,
                 startErr, firstRet, serr, startPasses, logged, failedAt,
                 steady, acc, clientVars>>

\* Get in the callback: p.mu.Lock()
AD_CbGetLock(t) ==
  /\ pc[t] = "cb_get_lock"
  /\ MuLock
  /\ pc' = [pc EXCEPT ![t] = "cb_get_read"]
  /\ UNCHANGED <<current, autoscalingVersion, callbacks, frame, pass,
                 startErr, firstRet, serr, startPasses, logged, failedAt,
                 steady, acc, clientVars>>

\* Get in the callback: ora := p.current
AD_CbGetRead(t) ==
  /\ pc[t] = "cb_get_read"
  /\ frame' = [frame EXCEPT ![t].cbGot = GetRead]
  /\ pc' = [pc EXCEPT ![t] = "cb_get_unlock"]
  /\ UNCHANGED <<current, mu, autoscalingVersion, callbacks, pass,
                 startErr, firstRet, serr, startPasses, logged, failedAt,
                 steady, acc, clientVars>>

\* Get in the callback: p.mu.Unlock(); return ora.  The callback runs on.
AD_CbGetUnlock(t) ==
  /\ pc[t] = "cb_get_unlock"
  /\ MuUnlock
  /\ pc' = [pc EXCEPT ![t] = "ad_do"]
  /\ UNCHANGED <<current, autoscalingVersion, callbacks, frame, pass,
                 startErr, firstRet, serr, startPasses, logged, failedAt,
                 steady, acc, clientVars>>

\* One step of a callback's call of c.OpenShiftRoutes().
CallbackReads(t) ==
  \/ AD_CbGetCall(t)
  \/ AD_CbGetLock(t)
  \/ AD_CbGetRead(t)
  \/ AD_CbGetUnlock(t)

\* ------------------------------------------ another goroutine's accessors
\* c.OpenShiftRoutes() is called: c.openshiftRoutes.Get() reaches p.mu.Lock().
Ext_OpenShiftRoutes ==
  /\ pc["ext"] = "idle"
  /\ pc' = [pc EXCEPT !["ext"] = "os_lock"]
  /\ UNCHANGED <<current, mu, autoscalingVersion, callbacks, frame, pass,
                 startErr, firstRet, serr, startPasses, logged, failedAt,
                 steady, acc, clientVars>>

\* Get: p.mu.Lock()
Ext_GetLock ==
  /\ pc["ext"] = "os_lock"
  /\ MuLock
  /\ pc' = [pc EXCEPT !["ext"] = "os_read"]
  /\ UNCHANGED <<current, autoscalingVersion, callbacks, frame, pass,
                 startErr, firstRet, serr, startPasses, logged, failedAt,
                 steady, acc, clientVars>>

\* Get: ora := p.current
Ext_GetRead ==
  /\ pc["ext"] = "os_read"
  /\ acc' = GetRead
  /\ pc' = [pc EXCEPT !["ext"] = "os_unlock"]
  /\ UNCHANGED <<current, mu, autoscalingVersion, callbacks, frame, pass,
                 startErr, firstRet, serr, startPasses, logged, failedAt,
                 steady, clientVars>>

\* Get: p.mu.Unlock(); return ora
Ext_GetUnlock ==
  /\ pc["ext"] = "os_unlock"
  /\ MuUnlock
  /\ pc' = [pc EXCEPT !["ext"] = "acc_ret"]
  /\ UNCHANGED <<current, autoscalingVersion, callbacks, frame, pass,
                 startErr, firstRet, serr, startPasses, logged, failedAt,
                 steady, acc, clientVars>>

\* c.AutoscalingVersion(): return c.autoscalingVersion
Ext_AutoscalingVersion ==
  /\ pc["ext"] = "idle"
  /\ acc' = autoscalingVersion
  /\ pc' = [pc EXCEPT !["ext"] = "acc_ret"]
  /\ UNCHANGED <<current, mu, autoscalingVersion, callbacks, frame, pass,
                 startErr, firstRet, serr, startPasses, logged, failedAt,
                 steady, clientVars>>

\* The accessor has returned and its caller drops the value.
Ext_AccessorDone ==
  /\ pc["ext"] = "acc_ret"
  /\ acc' = "none"
  /\ pc' = [pc EXCEPT !["ext"] = "idle"]
  /\ UNCHANGED <<current, mu, autoscalingVersion, callbacks, frame, pass,
                 startErr, firstRet, serr, startPasses, logged, failedAt,
                 steady, clientVars>>

NextAccess ==
  \/ Next
  \/ \E t \in Threads : CallbackReads(t)
  \/ Ext_OpenShiftRoutes
  \/ Ext_GetLock
  \/ Ext_GetRead
  \/ Ext_GetUnlock
  \/ Ext_AutoscalingVersion
  \/ Ext_AccessorDone

\* The program with callbacks that read the routing availability and with
\* another goroutine that calls the read accessors.
SpecAccess == Init /\ [][NextAccess]_vars

\* -------------------------------------- another goroutine's AutoDetect
\* The public c.AutoDetect() is called by the other goroutine, once
\* registration is over and StartAutoDetect has been called.
Ext_AutoDetectCall ==
  /\ pc["ext"] = "idle"
  /\ pc["main"] # "init"
  /\ AD_Enter("ext")
  /\ pc' = [pc EXCEPT !["ext"] = "ad_probe_routes"]
  /\ UNCHANGED <<current, mu, autoscalingVersion, callbacks, startErr,
                 firstRet, serr, startPasses, logged, failedAt, steady, acc,
                 clientVars>>

\* That call has returned.
Ext_AutoDetectDone ==
  /\ pc["ext"] = "ad_ret"
  /\ frame' = [frame EXCEPT !["ext"] = EmptyFrame]
  /\ pass' = [pass EXCEPT !["ext"] = EmptyPass]
  /\ pc' = [pc EXCEPT !["ext"] = "idle"]
  /\ UNCHANGED <<current, mu, autoscalingVersion, callbacks, startErr,
                 firstRet, serr, startPasses, logged, failedAt, steady, acc,
                 clientVars>>

\* StartAutoDetect up to the first tick of its loop, while the other
\* goroutine calls AutoDetect directly.
NextOverlap ==
  \/ \E f \in CallbackFns : Register(f)
  \/ StartCall
  \/ StartSpawn
  \/ StartReturn
  \/ NewTicker
  \/ Ext_AutoDetectCall
  \/ Ext_AutoDetectDone
  \/ \E t \in Threads : AutoDetect(t)

SpecOverlap == Init /\ [][NextOverlap]_vars

\* --------------------------------------- concurrent callers of the store
\* A caller begins p.Set(v) or p.Get().
CBegin(c) ==
  /\ cpc[c] = "idle"
  /\ cstarted < MaxOps
  /\ cstarted' = cstarted + 1
  /\ \/ \E v \in RoutesValues :
          cop' = [cop EXCEPT ![c] = [NoOp EXCEPT !.op = "Set", !.arg = v,
                                                 !.floor = cmax]]
     \/ cop' = [cop EXCEPT ![c] = [NoOp EXCEPT !.op = "Get", !.floor = cmax]]
  /\ cpc' = [cpc EXCEPT ![c] = "lock"]
  /\ UNCHANGED <<current, mu, progVars, chist, cmax>>

\* p.mu.Lock() of Set and of Get.
CLock(c) ==
  /\ cpc[c] = "lock"
  /\ MuLock
  /\ cpc' = [cpc EXCEPT ![c] = "body"]
  /\ IF cop[c].op = "Set"
       THEN /\ chist' = Append(chist, cop[c].arg)
            /\ cop' = [cop EXCEPT ![c].at = Len(chist) + 1]
       ELSE UNCHANGED <<chist, cop>>
  /\ UNCHANGED <<current, progVars, cmax, cstarted>>

\* p.current = ora of Set.
CSetWrite(c) ==
  /\ cpc[c] = "body"
  /\ cop[c].op = "Set"
  /\ SetWrite(cop[c].arg)
  /\ cpc' = [cpc EXCEPT ![c] = "unlock"]
  /\ UNCHANGED <<mu, progVars, cop, chist, cmax, cstarted>>

\* ora := p.current of Get.
CGetRead(c) ==
  /\ cpc[c] = "body"
  /\ cop[c].op = "Get"
  /\ cop' = [cop EXCEPT ![c].ret = GetRead, ![c].at = Len(chist)]
  /\ cpc' = [cpc EXCEPT ![c] = "unlock"]
  /\ UNCHANGED <<current, mu, progVars, chist, cmax, cstarted>>

\* p.mu.Unlock() of Set and of Get.
CUnlock(c) ==
  /\ cpc[c] = "unlock"
  /\ MuUnlock
  /\ cpc' = [cpc EXCEPT ![c] = "ret"]
  /\ UNCHANGED <<current, progVars, cop, chist, cmax, cstarted>>

\* Set or Get returns to its caller.
CReturn(c) ==
  /\ cpc[c] = "ret"
  /\ cmax' = IF cop[c].op = "Set" /\ cop[c].at > cmax THEN cop[c].at ELSE cmax
  /\ cop' = [cop EXCEPT ![c] = NoOp]
  /\ cpc' = [cpc EXCEPT ![c] = "idle"]
  /\ UNCHANGED <<current, mu, progVars, chist, cstarted>>

NextStore ==
  \/ \E c \in Clients : CBegin(c)
  \/ \E c \in Clients : CLock(c)
  \/ \E c \in Clients : CSetWrite(c)
  \/ \E c \in Clients : CGetRead(c)
  \/ \E c \in Clients : CUnlock(c)
  \/ \E c \in Clients : CReturn(c)

\* The store alone, under concurrent callers of Set and Get.
SpecStore == Init /\ [][NextStore]_vars

\* Goroutine t is inside AutoDetect: entered and not yet returned.
InPass(t) ==
  pc[t] \in {"ad_probe_routes", "ad_get_lock", "ad_get_read", "ad_get_unlock",
             "ad_compare", "ad_set_lock", "ad_set_write", "ad_set_unlock",
             "ad_do", "cb_get_lock", "cb_get_read", "cb_get_unlock",
             "ad_probe_hpa"}

\* From now on both probes succeed and answer r and v.  The moment is taken
\* between two passes: a probe that answers inside a pass in progress could
\* have given the same answer before the environment settled.
Settle(r, v) ==
  /\ ~steady.on
  /\ \A t \in Threads : ~InPass(t)
  /\ steady' = [on |-> TRUE, r |-> r, v |-> v]
  /\ UNCHANGED <<current, mu, autoscalingVersion, callbacks, pc, frame, pass,
                 startErr, firstRet, serr, startPasses, logged, failedAt,
                 acc, clientVars>>

NextStable ==
  \/ Next
  \/ \E r \in RoutesValues, v \in AutoscalingVersions : Settle(r, v)

\* The program in an environment that may settle, with the fairness the
\* runtime gives it: StartAutoDetect is called and runs on, the ticker keeps
\* firing, and the loop goroutine takes its steps.
LiveStable ==
  /\ Init
  /\ [][NextStable]_vars
  /\ WF_vars(StartCall \/ AutoDetect("main") \/ StartSpawn)
  /\ WF_vars(NewTicker)
  /\ WF_vars(Tick)
  /\ WF_vars(AutoDetect("loop"))
  /\ WF_vars(LoopLog)

\* The scheduler with the fairness the runtime gives it: the ticker keeps
\* firing, and a goroutine that can take a step eventually takes it (probes
\* and callbacks return).
LiveSpec ==
  /\ Spec
  /\ WF_vars(NewTicker)
  /\ WF_vars(Tick)
  /\ WF_vars(AutoDetect("loop"))
  /\ WF_vars(LoopLog)

\* ------------------------------------------------------------ properties
\* The AutoDetect call of goroutine t has returned and its caller has not
\* yet gone on.
Returned(t) == pc[t] = "ad_ret"

\* The routing probe of the pass of t succeeded.
RoutesProbed(t) == pass[t].routesProbe \in RoutesValues

\* s is an initial segment of q.
IsPrefix(s, q) == Len(s) <= Len(q) /\ \A k \in 1..Len(s) : s[k] = q[k]

\* The values of a sequence.
Range(q) == {q[k] : k \in 1..Len(q)}

\* C1: in a pass whose routing probe succeeds with the value the store already
\* holds, no callback is invoked (at no point of the pass) and the stored
\* routing value stays what it was.
C1_NoCallbackWhenUnchanged ==
  \A t \in Threads :
    (RoutesProbed(t) /\ pass[t].routesProbe = pass[t].preRoutes)
      => /\ pass[t].invoked = <<>>
         /\ pass[t].nDo = 0
         /\ current = pass[t].preRoutes

\* Witness of C1: a pass with callbacks registered has returned nil after
\* probing the value the store held.
C1_Witness ==
  /\ Returned("loop")
  /\ Len(callbacks) = 2
  /\ pass["loop"].routesProbe = "Available"
  /\ pass["loop"].preRoutes = "Available"
  /\ pass["loop"].ret = "nil"

\* C2: in a pass whose routing probe succeeds with a value different from the
\* stored one, Do is invoked exactly once and calls every registered callback
\* exactly once, in registration order; at no point of any pass has Do been
\* invoked twice or a callback been called out of order.
C2_OneInvokeOnChange ==
  \A t \in Threads :
    /\ pass[t].nDo <= 1
    /\ IsPrefix(pass[t].invoked, callbacks)
    /\ (Returned(t) /\ RoutesProbed(t) /\ pass[t].routesProbe # pass[t].preRoutes)
         => /\ pass[t].nDo = 1
            /\ pass[t].invoked = callbacks

\* Witness of C2: a periodic pass that saw Available become Unknown has
\* returned after calling two different callbacks.
C2_Witness ==
  /\ Returned("loop")
  /\ callbacks = <<1, 2>>
  /\ pass["loop"].preRoutes = "Available"
  /\ pass["loop"].routesProbe = "Unknown"
  /\ pass["loop"].invoked = <<1, 2>>

\* C3: when the routing probe succeeds with a changed value and the
\* autoscaling probe fails, the pass returns an error, the store holds the
\* newly probed routing value, the notification has happened, and
\* autoscalingVersion is what it was before the pass.
C3_PartialSuccessPersists ==
  \A t \in Threads :
    (/\ Returned(t)
     /\ RoutesProbed(t)
     /\ pass[t].routesProbe # pass[t].preRoutes
     /\ pass[t].hpaProbe = "fail")
      => /\ pass[t].ret = "ErrHPA"
         /\ GetRead = pass[t].routesProbe
         /\ pass[t].nDo = 1
         /\ autoscalingVersion = pass[t].preVersion

\* Witness of C3: such a pass, begun with a version other than the default.
C3_Witness ==
  /\ Returned("loop")
  /\ pass["loop"].preRoutes = "NotAvailable"
  /\ pass["loop"].routesProbe = "Available"
  /\ pass["loop"].hpaProbe = "fail"
  /\ pass["loop"].preVersion = "V1"
  /\ current = "Available"

\* C4: a failing callback never makes the pass fail: a pass never returns a
\* callback's error, a pass in which a callback failed has gone on to query
\* the autoscaling probe, and when both probes succeeded the pass returns nil
\* with the probed routing value and the probed version stored.
C4_CallbackFailureNotPropagated ==
  \A t \in Threads :
    Returned(t) =>
      /\ pass[t].ret # "ErrCallback"
      /\ pass[t].failed # {} => pass[t].hpaProbe # "none"
      /\ (RoutesProbed(t) /\ pass[t].hpaProbe \in AutoscalingVersions)
           => /\ pass[t].ret = "nil"
              /\ current = pass[t].routesProbe
              /\ autoscalingVersion = pass[t].hpaProbe

\* Witness of C4: a pass in which a callback failed has returned nil.
C4_Witness ==
  /\ Returned("loop")
  /\ pass["loop"].failed # {}
  /\ pass["loop"].ret = "nil"
  /\ pass["loop"].hpaProbe = "V2Beta2"
  /\ current = pass["loop"].routesProbe

\* C5: once Do has returned, every callback registered after a failing one
\* has been called in that same Do, wherever the failing callbacks are and
\* however many there are.
C5_FailureDoesNotStopInvoke ==
  \A t \in Threads :
    (pass[t].nDo = 1 /\ pc[t] \in {"ad_probe_hpa", "ad_ret"})
      => /\ Len(pass[t].invoked) = Len(callbacks)
         /\ \A k \in pass[t].failed :
              \A j \in (k + 1)..Len(callbacks) :
                j <= Len(pass[t].invoked) /\ pass[t].invoked[j] = callbacks[j]

\* Witness of C5: Do has returned after its first callback failed and a
\* later one was still called.
C5_Witness ==
  /\ pc["loop"] = "ad_probe_hpa"
  /\ Len(callbacks) = 2
  /\ 1 \in pass["loop"].failed
  /\ Len(pass["loop"].invoked) = 2

\* C6: when the routing probe fails the pass has returned that error at once:
\* the autoscaling probe was not queried, no callback was invoked, and the
\* stored routing value and autoscalingVersion are what they were.
C6_RoutesFailureAborts ==
  \A t \in Threads :
    pass[t].routesProbe = "fail"
      => /\ Returned(t)
         /\ pass[t].ret = "ErrRoutes"
         /\ pass[t].hpaProbe = "none"
         /\ pass[t].invoked = <<>>
         /\ pass[t].nDo = 0
         /\ current = pass[t].preRoutes
         /\ autoscalingVersion = pass[t].preVersion

\* Witness of C6: a periodic pass with callbacks registered has failed on the
\* routing probe, from a state other than the initial one.
C6_Witness ==
  /\ Returned("loop")
  /\ pass["loop"].routesProbe = "fail"
  /\ Len(callbacks) > 0
  /\ current = "Available"
  /\ autoscalingVersion = "V1"

\* C7: a pass returns nil exactly when both probes succeeded; otherwise it
\* returns the error of the first probe that failed.
C7_NilIffBothProbesSucceed ==
  \A t \in Threads :
    Returned(t) =>
      /\ pass[t].ret = "nil"
           <=> (RoutesProbed(t) /\ pass[t].hpaProbe \in AutoscalingVersions)
      /\ pass[t].routesProbe = "fail" => pass[t].ret = "ErrRoutes"
      /\ (RoutesProbed(t) /\ pass[t].hpaProbe = "fail") => pass[t].ret = "ErrHPA"

\* Witness of C7: a pass has returned the error of the autoscaling probe
\* after the routing probe succeeded.
C7_Witness ==
  /\ Returned("main")
  /\ RoutesProbed("main")
  /\ pass["main"].hpaProbe = "fail"
  /\ pass["main"].ret = "ErrHPA"

\* C8: StartAutoDetect runs one pass to completion, launches the periodic
\* loop whatever that pass returned, and returns that pass's result; no
\* periodic pass changes what it returned.
C8_StartReturnsFirstPass ==
  /\ pc["main"] \in {"start_ret", "done"} =>
       /\ startPasses = 1
       /\ firstRet # "none"
       /\ pc["loop"] # "unborn"
  /\ pc["main"] = "done" <=> startErr # "none"
  /\ startErr # "none" => startErr = firstRet

\* Witness of C8: StartAutoDetect returned an error, the loop it launched
\* has since failed differently and then completed a pass that returned nil.
C8_Witness ==
  /\ startErr = "ErrHPA"
  /\ logged = "ErrRoutes"
  /\ Returned("loop")
  /\ pass["loop"].ret = "nil"

\* C9: the periodic loop never terminates, and after every periodic pass,
\* failed or not, another pass is eventually begun.
C9_LoopNeverStops ==
  /\ [](pc["loop"] \in {"unborn", "new_ticker", "wait", "ad_probe_routes",
                        "ad_get_lock", "ad_get_read", "ad_get_unlock",
                        "ad_compare", "ad_set_lock", "ad_set_write",
                        "ad_set_unlock", "ad_do", "ad_probe_hpa", "ad_ret"})
  /\ (Returned("loop") /\ pass["loop"].ret # "nil")
       ~> (pc["loop"] = "ad_probe_routes")
  /\ (Returned("loop") /\ pass["loop"].ret = "nil")
       ~> (pc["loop"] = "ad_probe_routes")

\* Witness of C9: a periodic pass begins after an earlier periodic pass
\* failed.
C9_Witness ==
  /\ pc["loop"] = "ad_probe_routes"
  /\ logged # "none"

\* C10: a Get returns the initial value or a value passed to some Set, and
\* never a value older than that of the latest Set that had returned when
\* the Get began: it returns the value of that Set or of a Set that took the
\* lock after it.
C10_GetSeesCompletedSet ==
  \A c \in Clients :
    (cop[c].op = "Get" /\ cpc[c] \in {"unlock", "ret"})
      => /\ cop[c].ret \in {NewWrapperCurrent} \cup Range(chist)
         /\ cop[c].floor <= cop[c].at
         /\ cop[c].at <= Len(chist)
         /\ cop[c].ret = IF cop[c].at = 0 THEN NewWrapperCurrent
                                          ELSE chist[cop[c].at]

\* Witness of C10: a Get that began after a Set had returned, and that ran
\* while another Set with a different value had been started, returns.
C10_Witness ==
  \E c \in Clients :
    /\ cop[c].op = "Get"
    /\ cpc[c] = "ret"
    /\ cop[c].floor >= 1
    /\ Len(chist) = 2
    /\ chist[1] # chist[2]
    /\ cop[c].at = 2

\* C11: from NotAvailable/V2, a pass probing (Available, V1) ends with
\* Available and V1 stored and every registered callback invoked once; a pass
\* that begins with Available/V1 stored and probes (Available, V1) invokes no
\* callback and leaves both fields as they were; and after any pass that
\* returned nil both fields hold what that pass's probes answered.
C11_ScenarioAndNilPass ==
  \A t \in Threads :
    Returned(t) =>
      /\ (/\ pass[t].preRoutes = "NotAvailable" /\ pass[t].preVersion = "V2"
          /\ pass[t].routesProbe = "Available" /\ pass[t].hpaProbe = "V1")
           => /\ current = "Available"
              /\ autoscalingVersion = "V1"
              /\ pass[t].nDo = 1
              /\ pass[t].invoked = callbacks
      /\ (/\ pass[t].preRoutes = "Available" /\ pass[t].preVersion = "V1"
          /\ pass[t].routesProbe = "Available" /\ pass[t].hpaProbe = "V1")
           => /\ current = "Available"
              /\ autoscalingVersion = "V1"
              /\ pass[t].invoked = <<>>
      /\ pass[t].ret = "nil"
           => /\ current = pass[t].routesProbe
              /\ autoscalingVersion = pass[t].hpaProbe

\* Witness of C11: the first pass returned nil and no periodic pass has
\* failed; a periodic pass that began with Available/V1 stored has probed
\* (Available, V1) again and returned, with two callbacks registered.
C11_Witness ==
  /\ startErr = "nil"
  /\ logged = "none"
  /\ Len(callbacks) = 2
  /\ Returned("loop")
  /\ pass["loop"].preRoutes = "Available"
  /\ pass["loop"].preVersion = "V1"
  /\ pass["loop"].routesProbe = "Available"
  /\ pass["loop"].hpaProbe = "V1"

\* C13: a successful autoscaling probe is stored whether or not it differs
\* from the previous version, and a changed version alone notifies nobody: a
\* pass whose routing value is unchanged has invoked no callback, whatever
\* the autoscaling probe answered.
C13_VersionStoredWithoutNotify ==
  \A t \in Threads :
    Returned(t) =>
      /\ pass[t].hpaProbe \in AutoscalingVersions
           => autoscalingVersion = pass[t].hpaProbe
      /\ (RoutesProbed(t) /\ pass[t].routesProbe = pass[t].preRoutes)
           => pass[t].nDo = 0 /\ pass[t].invoked = <<>>

\* Witness of C13: a pass with callbacks registered changed the version only.
C13_Witness ==
  /\ Returned("loop")
  /\ Len(callbacks) > 0
  /\ pass["loop"].routesProbe = pass["loop"].preRoutes
  /\ pass["loop"].preVersion = "V1"
  /\ pass["loop"].hpaProbe = "V2Beta2"
  /\ autoscalingVersion = "V2Beta2"

\* C16: with StartAutoDetect called once and no other caller of AutoDetect,
\* at most one pass is in progress: the periodic goroutine is inside a pass
\* only after the first, synchronous pass has returned, so at most one
\* goroutine is about to write autoscalingVersion.
C16_OnePassAtATime ==
  /\ Cardinality({t \in Threads : InPass(t)}) <= 1
  /\ Cardinality({t \in Threads : pc[t] = "ad_probe_hpa"}) <= 1
  /\ (InPass("loop") \/ Returned("loop"))
       => pc["main"] \in {"start_ret", "done"} /\ firstRet # "none"

\* Witness of C16: the periodic goroutine is about to write the version
\* while StartAutoDetect has not yet returned to its caller.
C16_Witness ==
  /\ pc["loop"] = "ad_probe_hpa"
  /\ pc["main"] = "start_ret"

\* C14: a failed notification is not retried.  When the notification of the
\* change to w failed, the store keeps w, so a later pass begins with w
\* stored; and such a pass, when its routing probe answers w again, invokes
\* no callback.  Callbacks run again only in a pass that probes a value other
\* than the stored one.
C14_FailedNotifyNotRetried ==
  \A t \in Threads :
    /\ (failedAt # "none" /\ pc[t] = "ad_probe_routes")
         => pass[t].preRoutes = failedAt
    /\ (/\ failedAt # "none"
        /\ pass[t].preRoutes = failedAt
        /\ pass[t].routesProbe = failedAt)
         => pass[t].nDo = 0 /\ pass[t].invoked = <<>>
    /\ (failedAt # "none" /\ pass[t].preRoutes = failedAt /\ pass[t].nDo > 0)
         => RoutesProbed(t) /\ pass[t].routesProbe # failedAt

\* Witness of C14: after the notification of Available failed, a later pass
\* that probed Available again has returned nil.
C14_Witness ==
  /\ failedAt = "Available"
  /\ Len(callbacks) = 2
  /\ Returned("loop")
  /\ pass["loop"].preRoutes = "Available"
  /\ pass["loop"].routesProbe = "Available"
  /\ pass["loop"].ret = "nil"

\* C15: probe failures are retried by the next tick: once both probes succeed
\* for good with fixed answers (r, v), the stored routing value and
\* autoscalingVersion eventually equal r and v and stay so, whatever passes
\* failed before.
C15_ConvergesOnceProbesSettle ==
  <>[](steady.on => (current = steady.r /\ autoscalingVersion = steady.v))

\* Witness of C15: the first pass and a periodic pass failed, the probes then
\* settled on answers other than the initial values, and both are stored.
C15_Witness ==
  /\ steady.on
  /\ steady.r = "Available"
  /\ steady.v = "V1"
  /\ startErr = "ErrRoutes"
  /\ logged = "ErrHPA"
  /\ pc["loop"] = "wait"
  /\ current = "Available"
  /\ autoscalingVersion = "V1"

\* C12: in a pass that detects a routing change, Set has completed before the
\* first callback is called: while Do runs the new value is stored, and a
\* callback that reads the routing availability gets the new value, not the
\* one stored before the pass.
C12_CallbackSeesNewValue ==
  \A t \in Threads :
    /\ pc[t] \in {"ad_do", "cb_get_lock", "cb_get_read", "cb_get_unlock"}
         => /\ current = pass[t].routesProbe
            /\ pass[t].changed
    /\ frame[t].cbGot # "none"
         => /\ frame[t].cbGot = pass[t].routesProbe
            /\ frame[t].cbGot # pass[t].preRoutes

\* Witness of C12: the second callback of a periodic pass that saw Unknown
\* become Available has read Available.
C12_Witness ==
  /\ pc["loop"] = "cb_get_unlock"
  /\ frame["loop"].i = 2
  /\ pass["loop"].preRoutes = "Unknown"
  /\ frame["loop"].cbGot = "Available"

\* C17: a Config built without options starts with NotAvailable and the
\* default autoscaling version; the routing value changes only in the store
\* of a pass's Set and autoscalingVersion only in a pass's assignment after
\* the autoscaling probe; the read accessors and the registration of a
\* callback change neither.
C17_FieldsChangeOnlyInPass ==
  /\ current = "NotAvailable"
  /\ autoscalingVersion = DefaultAutoscalingVersion
  /\ [][/\ current' # current
             => \E t \in Threads : pc[t] = "ad_set_write" /\ pc'[t] = "ad_set_unlock"
        /\ autoscalingVersion' # autoscalingVersion
             => \E t \in Threads : pc[t] = "ad_probe_hpa" /\ pc'[t] = "ad_ret"
        /\ (pc'["ext"] # pc["ext"] \/ callbacks' # callbacks)
             => (current' = current /\ autoscalingVersion' = autoscalingVersion)
       ]_vars

\* Witness of C17: with a callback registered and both fields changed by
\* passes, the accessor of the routing availability has returned Available.
C17_Witness ==
  /\ Len(callbacks) > 0
  /\ pc["ext"] = "acc_ret"
  /\ acc = "Available"
  /\ current = "Available"
  /\ autoscalingVersion = "V1"

\* C18 (as claimed): every Do of a pass goes with an actual change of the
\* stored routing value by that pass's Set, also when passes overlap.
C18_InvokeOnlyOnChange ==
  \A t \in Threads : pass[t].nDo > 0 => pass[t].changed

\* Goroutine t is inside the critical section of Set or Get.
Holding(t) ==
  pc[t] \in {"ad_get_read", "ad_get_unlock", "ad_set_write", "ad_set_unlock",
             "cb_get_read", "cb_get_unlock", "os_read", "os_unlock"}

\* Goroutine t is in p.mu.Lock() of Set or Get.
Waiting(t) == pc[t] \in {"ad_get_lock", "ad_set_lock", "cb_get_lock", "os_lock"}

\* C19: the mutex is held exactly while one goroutine is between Lock and
\* Unlock inside Set or Get, hence never while a probe is queried or a
\* callback runs; a goroutine inside the critical section can always take
\* its next step, and a goroutine waiting in Lock waits only for such a
\* goroutine, so no Get or Set is blocked for good.
C19_LockOnlyInsideSetGet ==
  /\ mu = (\E t \in Threads : Holding(t))
  /\ Cardinality({t \in Threads : Holding(t)}) <= 1
  /\ \A t \in Threads :
       /\ Holding(t) => ENABLED (AutoDetect(t) \/ CallbackReads(t)
                                 \/ Ext_GetRead \/ Ext_GetUnlock)
       /\ Waiting(t) => \/ ENABLED (AutoDetect(t) \/ CallbackReads(t) \/ Ext_GetLock)
                        \/ \E u \in Threads \ {t} : Holding(u)

\* Witness of C19: a callback called by Do waits in Lock while the other
\* goroutine is inside Get.
C19_Witness ==
  /\ pc["loop"] = "cb_get_lock"
  /\ pc["ext"] = "os_read"
  /\ mu = TRUE

====
